---- MODULE Spec2Model ----
(***************************************************************************)
(* Model of src/alert.py: one run of the gold "kimchi premium" alert.      *)
(*                                                                         *)
(* Texts are sequences of one-character strings; the multi-character       *)
(* literals of the patterns are single symbols:                            *)
(*   "WON/G"    the unit suffix of the domestic gold pattern (line 60),    *)
(*   "USD/OZS"  the unit suffix of the international gold pattern (65),    *)
(*   "CURPRICE" the label in front of a stock's current price (line 46).   *)
(* Python floats are modelled by exact rationals over arbitrary-precision  *)
(* naturals (TLC's integers are 32 bits wide): the rounding error of a     *)
(* double (relative 2^-53) is not modelled.  The page handed to num_from   *)
(* is the text BeautifulSoup's get_text made of it, and KIMCHI_THRESHOLD   *)
(* is a numeral float() accepts.                                           *)
(***************************************************************************)
EXTENDS Integers, Sequences, FiniteSets, TLC

(***************************************************************************)
(* Arbitrary-precision naturals: little-endian sequences of limbs in base  *)
(* 10000 without most-significant zero limbs; zero is <<>>.  A product of  *)
(* two limbs plus a carry stays below 2^31.                                *)
(***************************************************************************)
RECURSIVE BNorm(_)
BNorm(a) ==
  IF a = <<>> THEN <<>>
  ELSE IF a[Len(a)] = 0 THEN BNorm(SubSeq(a, 1, Len(a) - 1))
  ELSE a

BTl(a) ==
  IF a = <<>> THEN <<>> ELSE Tail(a)

BHd(a) ==
  IF a = <<>> THEN 0 ELSE Head(a)

RECURSIVE BAddC(_, _, _)
BAddC(a, b, c) ==
  IF a = <<>> /\ b = <<>>
  THEN (IF c = 0 THEN <<>> ELSE <<c>>)
  ELSE LET s == BHd(a) + BHd(b) + c
       IN  <<s % 10000>> \o BAddC(BTl(a), BTl(b), s \div 10000)

BAdd(a, b) ==
  BAddC(a, b, 0)

RECURSIVE BSubC(_, _, _)
BSubC(a, b, c) ==
  IF a = <<>> THEN <<>>
  ELSE LET s == BHd(a) - BHd(b) - c
       IN  <<IF s < 0 THEN s + 10000 ELSE s>>
           \o BSubC(BTl(a), BTl(b), IF s < 0 THEN 1 ELSE 0)

\* a - b for a >= b
BSub(a, b) ==
  BNorm(BSubC(a, b, 0))

RECURSIVE BCmpAt(_, _, _)
BCmpAt(a, b, i) ==
  IF i = 0 THEN 0
  ELSE IF a[i] < b[i] THEN -1
  ELSE IF a[i] > b[i] THEN 1
  ELSE BCmpAt(a, b, i - 1)

\* -1, 0 or 1 as a < b, a = b, a > b
BCmp(a, b) ==
  IF Len(a) < Len(b) THEN -1
  ELSE IF Len(a) > Len(b) THEN 1
  ELSE BCmpAt(a, b, Len(a))

RECURSIVE BMulLimb(_, _, _)
\* a * m + c for one limb m
BMulLimb(a, m, c) ==
  IF a = <<>>
  THEN (IF c = 0 THEN <<>> ELSE <<c>>)
  ELSE LET s == Head(a) * m + c
       IN  <<s % 10000>> \o BMulLimb(Tail(a), m, s \div 10000)

RECURSIVE BMul(_, _)
BMul(a, b) ==
  IF a = <<>> \/ b = <<>> THEN <<>>
  ELSE BNorm(BAdd(BMulLimb(a, Head(b), 0), <<0>> \o BMul(a, Tail(b))))

\* a * 10^k
BShift(a, k) ==
  IF a = <<>> THEN <<>>
  ELSE BMulLimb([i \in 1..(k \div 4) |-> 0] \o a, 10 ^ (k % 4), 0)

RECURSIVE BSearch(_, _, _, _)
\* long division, one limb: the greatest q in lo..hi with q * b <= r
BSearch(r, b, lo, hi) ==
  IF lo = hi THEN lo
  ELSE LET mid == (lo + hi + 1) \div 2
       IN  IF BCmp(BNorm(BMulLimb(b, mid, 0)), r) <= 0
           THEN BSearch(r, b, mid, hi)
           ELSE BSearch(r, b, lo, mid - 1)

\* long division, one limb: the limb q goes in front of the quotient qs
BDivTake(r, b, qs, q) ==
  [q |-> <<q>> \o qs, r |-> BSub(r, BNorm(BMulLimb(b, q, 0)))]

\* long division, one limb: the running remainder r, the quotient so far qs
BDivPut(r, b, qs) ==
  BDivTake(r, b, qs, BSearch(r, b, 0, 9999))

\* long division, one limb: the limb x is brought down behind prev.r
BDivLimb(x, b, prev) ==
  BDivPut(BNorm(<<x>> \o prev.r), b, prev.q)

RECURSIVE BDivFrom(_, _, _)
\* quotient and remainder by b of the number made of the limbs a[i..Len(a)]
BDivFrom(a, b, i) ==
  IF i > Len(a) THEN [q |-> <<>>, r |-> <<>>]
  ELSE BDivLimb(a[i], b, BDivFrom(a, b, i + 1))

BDivTrim(res) ==
  [q |-> BNorm(res.q), r |-> res.r]

\* quotient and remainder of a by b > 0
BDivMod(a, b) ==
  IF BCmp(a, b) < 0 THEN [q |-> <<>>, r |-> a]
  ELSE BDivTrim(BDivFrom(a, b, 1))

\* the quotient q rounded by how twice the remainder compares with the divisor
BRoundTie(q, twice) ==
  IF twice > 0 \/ (twice = 0 /\ q # <<>> /\ q[1] % 2 = 1)
  THEN BAdd(q, <<1>>)
  ELSE q

BRoundQR(dm, b) ==
  BRoundTie(dm.q, BCmp(BAdd(dm.r, dm.r), b))

\* a / b rounded to the nearest natural, ties to even
BRoundDiv(a, b) ==
  BRoundQR(BDivMod(a, b), b)

\* a natural below 10^8
BFromNat(n) ==
  BNorm(<<n % 10000, n \div 10000>>)

(***************************************************************************)
(* Python floats as exact rationals [neg, n, d]: the value is n/d, negated *)
(* when neg; d >= 1, and zero is [FALSE, <<>>, <<1>>].                     *)
(***************************************************************************)
RECURSIVE RStrip(_, _)
RStrip(n, d) ==
  IF n # <<>> /\ n[1] = 0 /\ d[1] = 0
  THEN RStrip(Tail(n), Tail(d))
  ELSE [n |-> n, d |-> d]

RSigned(neg, s) ==
  [neg |-> neg, n |-> s.n, d |-> s.d]

Rat(neg, n, d) ==
  IF n = <<>>
  THEN [neg |-> FALSE, n |-> <<>>, d |-> <<1>>]
  ELSE RSigned(neg, RStrip(n, d))

RZero ==
  Rat(FALSE, <<>>, <<1>>)

RFromNat(k) ==
  Rat(FALSE, BFromNat(k), <<1>>)

RIsZero(x) ==
  x.n = <<>>

RNeg(x) ==
  Rat(~x.neg, x.n, x.d)

RAbs(x) ==
  Rat(FALSE, x.n, x.d)

RMul(x, y) ==
  Rat(x.neg # y.neg, BMul(x.n, y.n), BMul(x.d, y.d))

\* x / y for y # 0
RDiv(x, y) ==
  Rat(x.neg # y.neg, BMul(x.n, y.d), BMul(x.d, y.n))

\* a/d + b/d with the signs xneg and yneg
RAddOver(xneg, yneg, a, b, d) ==
  IF xneg = yneg THEN Rat(xneg, BAdd(a, b), d)
  ELSE IF BCmp(a, b) >= 0 THEN Rat(xneg, BSub(a, b), d)
  ELSE Rat(yneg, BSub(b, a), d)

RAdd(x, y) ==
  RAddOver(x.neg, y.neg, BMul(x.n, y.d), BMul(y.n, x.d), BMul(x.d, y.d))

RSub(x, y) ==
  RAdd(x, RNeg(y))

RLt(x, y) ==
  RSub(x, y).neg

RGe(x, y) ==
  ~RLt(x, y)

RGt(x, y) ==
  RLt(y, x)

(***************************************************************************)
(* Characters and decimal numerals.                                        *)
(***************************************************************************)
DigitChars ==
  <<"0", "1", "2", "3", "4", "5", "6", "7", "8", "9">>

IsDigit(c) ==
  \E i \in 1..10 : DigitChars[i] = c

DigitVal(c) ==
  (CHOOSE i \in 1..10 : DigitChars[i] = c) - 1

\* str.replace(",", "")
RECURSIVE RemoveCommas(_)
RemoveCommas(s) ==
  IF s = <<>> THEN <<>>
  ELSE (IF Head(s) = "," THEN <<>> ELSE <<Head(s)>>) \o RemoveCommas(Tail(s))

\* the digit of weight 10^p in the digit string ds
DigitAt(ds, p) ==
  IF p < Len(ds) THEN DigitVal(ds[Len(ds) - p]) ELSE 0

\* the limb of weight 10000^j in the digit string ds
LimbAt(ds, j) ==
  DigitAt(ds, 4 * j) + 10 * DigitAt(ds, 4 * j + 1) + 100 * DigitAt(ds, 4 * j + 2)
    + 1000 * DigitAt(ds, 4 * j + 3)

\* the digit string ds with its last `scale` digits behind the point
FloatOf(ds, scale) ==
  Rat(FALSE,
      BNorm([j \in 1..((Len(ds) + 3) \div 4) |-> LimbAt(ds, j - 1)]),
      BShift(<<1>>, scale))

\* where the point of s is, Len(s) + 1 when it has none
PointAt(s) ==
  IF \E i \in 1..Len(s) : s[i] = "."
  THEN CHOOSE i \in 1..Len(s) : s[i] = "."
  ELSE Len(s) + 1

FloatAt(s, dot) ==
  FloatOf(SubSeq(s, 1, dot - 1) \o SubSeq(s, dot + 1, Len(s)),
          IF dot > Len(s) THEN 0 ELSE Len(s) - dot)

\* float(s) for s of the form d+ or d+.d+
Float(s) ==
  FloatAt(s, PointAt(s))

\* the number of decimal digits of a limb
LimbDigits(top) ==
  IF top >= 1000 THEN 4 ELSE IF top >= 100 THEN 3 ELSE IF top >= 10 THEN 2 ELSE 1

\* the number of decimal digits of a natural, 0 for zero
SigDigits(b) ==
  IF b = <<>> THEN 0 ELSE 4 * (Len(b) - 1) + LimbDigits(b[Len(b)])

\* the decimal digit of weight 10^p of a natural
NatDigit(b, p) ==
  IF (p \div 4) + 1 > Len(b) THEN 0
  ELSE (b[(p \div 4) + 1] \div (10 ^ (p % 4))) % 10

\* the n least significant decimal digits of a natural, most significant first
NatDigits(b, n) ==
  [i \in 1..n |-> DigitChars[NatDigit(b, n - i) + 1]]

\* the decimal digits of a natural, most significant first, at least `width` of them
NatChars(b, width) ==
  NatDigits(b, IF SigDigits(b) < width THEN width ELSE SigDigits(b))

\* the "," option of the format mini-language: groups of three from the right
RECURSIVE Grouped(_)
Grouped(ds) ==
  IF Len(ds) <= 3 THEN ds
  ELSE Grouped(SubSeq(ds, 1, Len(ds) - 3)) \o <<",">> \o SubSeq(ds, Len(ds) - 2, Len(ds))

\* the digits ds written with the point before the last `prec` of them
FmtDigits(ds, prec, comma) ==
  (IF comma THEN Grouped(SubSeq(ds, 1, Len(ds) - prec))
   ELSE SubSeq(ds, 1, Len(ds) - prec))
    \o (IF prec = 0 THEN <<>>
        ELSE <<".">> \o SubSeq(ds, Len(ds) - prec + 1, Len(ds)))

\* format(abs(x), ".<prec>f") or format(abs(x), ",.<prec>f")
FmtFixed(x, prec, comma) ==
  FmtDigits(NatChars(BRoundDiv(BShift(x.n, prec), x.d), prec + 1), prec, comma)

(***************************************************************************)
(* re.search for the four number patterns of the script.  A pattern is     *)
(*   [prefix] \s* ( [0-9]{1,3} (?:,[0-9]{3})* (?:\.[0-9]+)? ) \s* [suffix] *)
(* with the prefix and its \s*, the fraction, and the \s* and its suffix   *)
(* each present or not.                                                    *)
(***************************************************************************)
PAT_NAVER ==
  [prefix |-> "CURPRICE", frac |-> FALSE, suffix |-> ""]

PAT_USDKRW ==
  [prefix |-> "", frac |-> TRUE, suffix |-> ""]

PAT_DOMESTIC ==
  [prefix |-> "", frac |-> TRUE, suffix |-> "WON/G"]

PAT_INTERNATIONAL ==
  [prefix |-> "", frac |-> TRUE, suffix |-> "USD/OZS"]

IsSpace(c) ==
  c = " "

\* [0-9]{n} at position i
DigitsAt(t, i, n) ==
  /\ i + n - 1 <= Len(t)
  /\ \A k \in 0..(n - 1) : IsDigit(t[i + k])

\* (?:,[0-9]{3}){g} at position i
GroupsAt(t, i, g) ==
  \A k \in 0..(g - 1) :
    /\ i + 4 * k <= Len(t)
    /\ t[i + 4 * k] = ","
    /\ DigitsAt(t, i + 4 * k + 1, 3)

\* \.[0-9]{f} at position i, f >= 1
FracAt(t, i, f) ==
  /\ i <= Len(t)
  /\ t[i] = "."
  /\ DigitsAt(t, i + 1, f)

\* the position after a group of d digits, g comma groups and f fraction digits
GroupEnd(s, d, g, f) ==
  s + d + 4 * g + (IF f = 0 THEN 0 ELSE f + 1)

\* \s* suffix at position e
TailAt(t, e, suffix) ==
  \/ suffix = ""
  \/ \E w \in 0..Len(t) :
       /\ e + w <= Len(t)
       /\ \A k \in 0..(w - 1) : IsSpace(t[e + k])
       /\ t[e + w] = suffix

\* the ways <<d, g, f>> the capture group and the rest of the pattern match at s
Captures(t, s, pat) ==
  {c \in (1..3) \X (0..(Len(t) \div 4)) \X (0..Len(t)) :
     /\ DigitsAt(t, s, c[1])
     /\ GroupsAt(t, s + c[1], c[2])
     /\ c[3] = 0 \/ (pat.frac /\ FracAt(t, s + c[1] + 4 * c[2], c[3]))
     /\ TailAt(t, GroupEnd(s, c[1], c[2], c[3]), pat.suffix)}

\* the order in which a backtracking matcher tries them: every quantifier is
\* greedy, so more digits first, then more comma groups, then a longer fraction
Preferred(c, o) ==
  \/ c[1] > o[1]
  \/ c[1] = o[1] /\ c[2] > o[2]
  \/ c[1] = o[1] /\ c[2] = o[2] /\ c[3] >= o[3]

\* where the capture group starts when the pattern is tried at s (0: it cannot)
GroupStart(t, s, pat) ==
  IF pat.prefix = "" THEN s
  ELSE IF t[s] # pat.prefix THEN 0
  ELSE LET w == CHOOSE w \in 0..Len(t) :
                  /\ \A k \in 1..w : s + k <= Len(t) /\ IsSpace(t[s + k])
                  /\ ~(s + w + 1 <= Len(t) /\ IsSpace(t[s + w + 1]))
       IN  IF s + w + 1 <= Len(t) THEN s + w + 1 ELSE 0

\* the pattern matches when the capture group starts at gs
CapturesAt(t, gs, pat) ==
  gs # 0 /\ Captures(t, gs, pat) # {}

MatchesAt(t, s, pat) ==
  CapturesAt(t, GroupStart(t, s, pat), pat)

\* the way the matcher finds first
First(cs) ==
  CHOOSE c \in cs : \A o \in cs : Preferred(c, o)

\* m.group(1) of the match whose capture group is at gs in the way c
Group(t, gs, c) ==
  SubSeq(t, gs, GroupEnd(gs, c[1], c[2], c[3]) - 1)

GroupAt(t, gs, pat) ==
  Group(t, gs, First(Captures(t, gs, pat)))

\* the match at the leftmost of the positions `starts`
Leftmost(t, starts, pat) ==
  IF starts = {} THEN [found |-> FALSE, group |-> <<>>]
  ELSE [found |-> TRUE,
        group |-> GroupAt(t, GroupStart(t, CHOOSE s \in starts :
                                              \A o \in starts : s <= o, pat),
                          pat)]

\* re.search(pattern, text): the leftmost match, m.group(1) in `group`
re_search(t, pat) ==
  Leftmost(t, {s \in 1..Len(t) : MatchesAt(t, s, pat)}, pat)

(***************************************************************************)
(* Results of the functions that may raise: ok and a value, or the name of *)
(* the exception.                                                          *)
(***************************************************************************)
Unset ==
  [neg |-> FALSE, n |-> <<>>, d |-> <<>>]

IsSet(x) ==
  x.d # <<>>

Ok(v) ==
  [ok |-> TRUE, value |-> v, error |-> ""]

Raised(e) ==
  [ok |-> FALSE, value |-> Unset, error |-> e]

\* a missing number read as 0.0 instead of raising
FromMatchOrZero(m) ==
  IF ~m.found THEN Ok(Rat(FALSE, <<>>, <<1>>))
  ELSE Ok(Float(RemoveCommas(m.group)))

\* lines 30-32: what num_from makes of the match m
FromMatch(m) ==
  IF ~m.found THEN Raised("ValueError")
  ELSE Ok(Float(RemoveCommas(m.group)))

num_from(text, pattern) ==
  FromMatch(re_search(text, pattern))

(***************************************************************************)
(* The state of one run of the script.                                     *)
(***************************************************************************)
VARIABLES
  FORCE_RUN,          \* os.environ FORCE_RUN == "1"
  TEST_MESSAGE,       \* os.environ TEST_MESSAGE == "1"
  KIMCHI_THRESHOLD,   \* os.environ KIMCHI_THRESHOLD, <<>> when it is not set
  now,                \* datetime.now(KST) as read by the market-hours gate
  pc,                 \* the statement the run is at
  TH, usdkrw, dom_g, intl_usd_oz, intl_krw_g, kimchi,
  pnl,                \* the calc_pnl results so far, in call order
  msg,                \* the message text, by its parts
  fetched,            \* every requests.get issued: the source, its response,
                      \* and whether the number was got from it
  sends,              \* what became of each call of send_telegram, in order
  posts,              \* requests.post issued by send_telegram
  exit_status,        \* -1 while running, then the process's exit status
  error,              \* the uncaught exception, "" when there is none
  arg, ret            \* the argument and the result of a function applied alone

vars ==
  <<FORCE_RUN, TEST_MESSAGE, KIMCHI_THRESHOLD, now, pc, TH, usdkrw, dom_g,
    intl_usd_oz, intl_krw_g, kimchi, pnl, msg, fetched, sends, posts,
    exit_status, error, arg, ret>>

OZ_TO_G ==
  Float(<<"3", "1", ".", "1", "0", "3", "4", "7", "6", "8">>)

(***************************************************************************)
(* The market-hours gate.  A clock reading is [weekday, hour, minute,      *)
(* second, microsecond], Monday being weekday 0.                           *)
(***************************************************************************)
\* datetime.time.__le__
TimeLe(a, b) ==
  \/ a[1] < b[1]
  \/ a[1] = b[1] /\ a[2] < b[2]
  \/ a[1] = b[1] /\ a[2] = b[2] /\ a[3] < b[3]
  \/ a[1] = b[1] /\ a[2] = b[2] /\ a[3] = b[3] /\ a[4] <= b[4]

\* the weekend test off by one: Saturday counts as a trading day
is_korean_market_hours_sat(t) ==
  IF t.weekday > 5 THEN FALSE
  ELSE LET tm == <<t.hour, t.minute, t.second, t.microsecond>>
       IN  TimeLe(<<9, 0, 0, 0>>, tm) /\ TimeLe(tm, <<15, 30, 0, 0>>)

is_korean_market_hours(t) ==
  IF t.weekday >= 5 THEN FALSE
  ELSE LET tm == <<t.hour, t.minute, t.second, t.microsecond>>
       IN  TimeLe(<<9, 0, 0, 0>>, tm) /\ TimeLe(tm, <<15, 30, 0, 0>>)

(***************************************************************************)
(* What the network and the environment may hand to a run.                 *)
(***************************************************************************)
Clock(wd, h, m, sec, us) ==
  [weekday |-> wd, hour |-> h, minute |-> m, second |-> sec, microsecond |-> us]

\* Monday 10:00, Friday 15:30:00, Friday 15:30:01, Saturday 10:00
RunClocks ==
  {Clock(0, 10, 0, 0, 0), Clock(4, 15, 30, 0, 0), Clock(4, 15, 30, 1, 0),
   Clock(5, 10, 0, 0, 0)}

\* not set (the default "1.5" applies), "0.75", "25"
ThresholdSettings ==
  {<<>>, <<"0", ".", "7", "5">>, <<"2", "5">>}

NoNumberPage ==
  <<"-">>

\* the text view of the exchange-rate page
FxPages ==
  {<<"1", ",", "3", "5", "0", ".", "0", "0">>,
   <<"1", ",", "0", "0", "0", ".", "0", "0">>,
   <<"0", ".", "0", "0">>,
   NoNumberPage}

\* the text view of the domestic gold page
DomesticPages ==
  {<<"1", "4", "0", ",", "0", "0", "0", " ", "WON/G">>,
   <<"1", ",", "0", "3", "0", "WON/G">>,
   <<"1", ",", "0", "1", "5", " ", "WON/G">>,
   <<"1", ",", "0", "1", "0", " ", "WON/G">>,
   <<"9", "8", "5", " ", "WON/G">>,
   NoNumberPage}

\* the text view of the international gold page
InternationalPages ==
  {<<"2", ",", "6", "0", "0", ".", "0", "0", " ", "USD/OZS">>,
   <<"3", "1", ".", "1", "0", "3", "4", "7", "6", "8", " ", "USD/OZS">>,
   <<"0", ".", "0", "0", " ", "USD/OZS">>,
   NoNumberPage}

\* a stock's page
StockPages ==
  {<<"CURPRICE", " ", "3", "7", ",", "5", "1", "0">>,
   <<"CURPRICE", " ", "9", "0", ",", "0", "0", "0">>,
   NoNumberPage}

\* requests.get: a 2xx response with a body, a 4xx/5xx response, no response
Responses(pages) ==
  {[kind |-> "ok", text |-> t] : t \in pages}
    \cup {[kind |-> "HTTPError", text |-> <<>>],
          [kind |-> "ConnectionError", text |-> <<>>]}

\* what becomes of a call of send_telegram
Deliveries ==
  {"ok", "KeyError", "ConnectionError", "HTTPError"}

\* line 129 left out: one holding only
HoldingsFirst ==
  <<[code |-> "411060", avg |-> 37510, qty |-> 118]>>

\* the holdings of lines 128 and 129: code, average cost, quantity
Holdings ==
  <<[code |-> "411060", avg |-> 37510, qty |-> 118],
    [code |-> "091160", avg |-> 85700, qty |-> 62]>>

(***************************************************************************)
(* The functions of the script.                                            *)
(***************************************************************************)
fetch(resp) ==
  IF resp.kind = "ok" THEN [ok |-> TRUE, text |-> resp.text, error |-> ""]
  ELSE [ok |-> FALSE, text |-> <<>>, error |-> resp.kind]

\* lines 47-49: what get_naver_current_price makes of the match m
NaverPrice(m) ==
  IF ~m.found THEN Raised("ValueError")
  ELSE Ok(Float(RemoveCommas(m.group)))

get_naver_current_price(resp) ==
  LET html == fetch(resp)
  IN  IF ~html.ok THEN Raised(html.error)
      ELSE NaverPrice(re_search(html.text, PAT_NAVER))

get_usdkrw(resp) ==
  LET html == fetch(resp)
  IN  IF ~html.ok THEN Raised(html.error)
      ELSE num_from(html.text, PAT_USDKRW)

get_domestic_gold_krw_per_g(resp) ==
  LET html == fetch(resp)
  IN  IF ~html.ok THEN Raised(html.error)
      ELSE num_from(html.text, PAT_DOMESTIC)

get_international_gold_usd_per_oz(resp) ==
  LET html == fetch(resp)
  IN  IF ~html.ok THEN Raised(html.error)
      ELSE num_from(html.text, PAT_INTERNATIONAL)

\* the sign the "+" format option writes
SignChar(x) ==
  IF x.neg THEN "-" ELSE "+"

\* two decimals cut off instead of rounded
fmt_pct_cut(x) ==
  <<SignChar(x)>>
    \o FmtDigits(NatChars(BDivMod(BShift(x.n, 2), x.d).q, 3), 2, FALSE)
    \o <<"%">>

fmt_pct(x) ==
  <<SignChar(x)>> \o FmtFixed(x, 2, FALSE) \o <<"%">>

\* format(n, ",") for the integer n of magnitude r, negative when neg
FmtInt(neg, r) ==
  (IF neg /\ r # <<>> THEN <<"-">> ELSE <<>>) \o Grouped(NatChars(r, 1))

fmt_won(x) ==
  FmtInt(x.neg, BRoundDiv(x.n, x.d))

\* lines 90-93: the returned dict, given value and cost
PnlDict(cur, avg, value, cost) ==
  [ok |-> TRUE, error |-> "", cur |-> cur, value |-> value,
   pl |-> RSub(value, cost),
   pl_pct |-> RMul(RSub(RDiv(cur, avg), RFromNat(1)), RFromNat(100))]

\* lines 87-89
PnlAt(cur, avg, qty) ==
  PnlDict(cur, avg, RMul(cur, qty), RMul(avg, qty))

\* lines 86-94, given what get_naver_current_price returned or raised
PnlOf(h, cur) ==
  IF ~cur.ok THEN [ok |-> FALSE, error |-> cur.error, cur |-> Unset,
                   value |-> Unset, pl |-> Unset, pl_pct |-> Unset]
  ELSE PnlAt(cur.value, RFromNat(h.avg), RFromNat(h.qty))

calc_pnl(h, resp) ==
  PnlOf(h, get_naver_current_price(resp))

\* the format options >w and <w: s filled with spaces to the width w
PadLeft(s, w) ==
  [i \in 1..(IF Len(s) < w THEN w - Len(s) ELSE 0) |-> " "] \o s

PadRight(s, w) ==
  s \o [i \in 1..(IF Len(s) < w THEN w - Len(s) ELSE 0) |-> " "]

\* lines 97-103, for the holding h and what calc_pnl returned for it
pnl_table_line(h, p) ==
  [code |-> h.code,
   cur |-> PadLeft(fmt_won(p.cur), 10),
   avg |-> PadLeft(fmt_won(RFromNat(h.avg)), 10),
   qty |-> PadRight(NatChars(BFromNat(h.qty), 1), 3),
   value |-> PadLeft(fmt_won(p.value), 12),
   sign |-> IF RGe(p.pl, RZero) THEN "up" ELSE "down",
   pl |-> PadLeft(fmt_won(p.pl), 12),
   pl_pct |-> PadLeft(<<SignChar(p.pl_pct)>> \o FmtFixed(p.pl_pct, 2, FALSE), 6)
                \o <<"%">>]

\* lines 143-144
pnl_icon(pl) ==
  IF RGt(pl, RZero) THEN "green" ELSE IF RLt(pl, RZero) THEN "red" ELSE "white"

\* line 138
kimchi_level(kimchi_abs, th) ==
  IF RGe(kimchi_abs, RMul(th, RFromNat(2))) THEN "fire"
  ELSE IF RGe(kimchi_abs, th) THEN "siren"
  ELSE "ok"

\* the badge with > written for >=
badge_gt(kimchi_abs, th) ==
  IF RGt(kimchi_abs, th) THEN "warning" ELSE "info"

\* line 158
badge(kimchi_abs, th) ==
  IF RGe(kimchi_abs, th) THEN "warning" ELSE "info"

\* the gate without the FORCE_RUN bypass
GatedOutAlways(force_run, t) ==
  ~is_korean_market_hours(t)

\* line 111: the run stops at the market-hours gate
GatedOut(force_run, t) ==
  (~force_run) /\ (~is_korean_market_hours(t))

\* the threshold gate with <= written for <
UnderThresholdLe(test_message, k, th) ==
  (~test_message) /\ ~RGt(RAbs(k), th)

\* line 124: the run stops at the threshold gate
UnderThreshold(test_message, k, th) ==
  (~test_message) /\ RLt(RAbs(k), th)

(***************************************************************************)
(* One run of the script, statement by statement.                          *)
(***************************************************************************)
NoMsg ==
  [badge |-> "", level |-> "", sign |-> "", pct |-> <<>>, intl |-> <<>>,
   fx |-> <<>>, implied |-> <<>>, dom |-> <<>>, summary |-> <<>>,
   lines_hold |-> <<>>, th |-> <<>>, force_run |-> FALSE,
   test_message |-> FALSE]

NoClock ==
  Clock(0, 0, 0, 0, 0)

\* the variables of a run before its first statement, the run being at `at`
Fresh(at) ==
  /\ pc = at
  /\ TH = Unset
  /\ usdkrw = Unset
  /\ dom_g = Unset
  /\ intl_usd_oz = Unset
  /\ intl_krw_g = Unset
  /\ kimchi = Unset
  /\ pnl = <<>>
  /\ msg = NoMsg
  /\ fetched = <<>>
  /\ sends = <<>>
  /\ posts = 0
  /\ exit_status = -1
  /\ error = ""

Init ==
  /\ FORCE_RUN \in BOOLEAN
  /\ TEST_MESSAGE \in BOOLEAN
  /\ KIMCHI_THRESHOLD \in ThresholdSettings
  /\ now \in RunClocks
  /\ Fresh("gate")
  /\ arg = <<>>
  /\ ret = <<>>

env ==
  <<FORCE_RUN, TEST_MESSAGE, KIMCHI_THRESHOLD, now, arg, ret>>

\* raise SystemExit(0) at the statement `at`
SystemExit0(at) ==
  /\ pc' = at
  /\ exit_status' = 0
  /\ error' = ""

\* an exception nothing catches: the traceback and exit status 1
Uncaught(e) ==
  /\ pc' = "raised"
  /\ exit_status' = 1
  /\ error' = e

\* lines 107-114
GateCheck ==
  /\ pc = "gate"
  /\ IF GatedOut(FORCE_RUN, now)
     THEN /\ SystemExit0("exit_gate")
          /\ TH' = TH
     ELSE /\ TH' = Float(IF KIMCHI_THRESHOLD = <<>> THEN <<"1", ".", "5">>
                         ELSE KIMCHI_THRESHOLD)
          /\ pc' = "get_usdkrw"
          /\ UNCHANGED <<exit_status, error>>
  /\ UNCHANGED <<env, usdkrw, dom_g, intl_usd_oz, intl_krw_g, kimchi, pnl, msg,
                 fetched, sends, posts>>

\* line 117
GetUsdkrw ==
  /\ pc = "get_usdkrw"
  /\ \E resp \in Responses(FxPages) :
       \E r \in {get_usdkrw(resp)} :
           /\ fetched' = Append(fetched, [src |-> "FX_USDKRW", resp |-> resp,
                                     ok |-> r.ok])
           /\ IF r.ok
              THEN /\ usdkrw' = r.value
                   /\ pc' = "get_domestic"
                   /\ UNCHANGED <<exit_status, error>>
              ELSE /\ Uncaught(r.error)
                   /\ usdkrw' = usdkrw
  /\ UNCHANGED <<env, TH, dom_g, intl_usd_oz, intl_krw_g, kimchi, pnl, msg,
                 sends, posts>>

\* line 118
GetDomesticGold ==
  /\ pc = "get_domestic"
  /\ \E resp \in Responses(DomesticPages) :
       \E r \in {get_domestic_gold_krw_per_g(resp)} :
           /\ fetched' = Append(fetched, [src |-> "M04020000", resp |-> resp,
                                     ok |-> r.ok])
           /\ IF r.ok
              THEN /\ dom_g' = r.value
                   /\ pc' = "get_international"
                   /\ UNCHANGED <<exit_status, error>>
              ELSE /\ Uncaught(r.error)
                   /\ dom_g' = dom_g
  /\ UNCHANGED <<env, TH, usdkrw, intl_usd_oz, intl_krw_g, kimchi, pnl, msg,
                 sends, posts>>

\* line 119
GetInternationalGold ==
  /\ pc = "get_international"
  /\ \E resp \in Responses(InternationalPages) :
       \E r \in {get_international_gold_usd_per_oz(resp)} :
           /\ fetched' = Append(fetched, [src |-> "GCcv1", resp |-> resp,
                                     ok |-> r.ok])
           /\ IF r.ok
              THEN /\ intl_usd_oz' = r.value
                   /\ pc' = "premium"
                   /\ UNCHANGED <<exit_status, error>>
              ELSE /\ Uncaught(r.error)
                   /\ intl_usd_oz' = intl_usd_oz
  /\ UNCHANGED <<env, TH, usdkrw, dom_g, intl_krw_g, kimchi, pnl, msg,
                 sends, posts>>

\* line 120
ImpliedPrice(intl, fx) ==
  RDiv(RMul(intl, fx), OZ_TO_G)

\* a zero reference read as a premium of 0% instead of raising
PremiumOrZero(dom, ref) ==
  IF RIsZero(ref) THEN Ok(RZero)
  ELSE Ok(RMul(RDiv(RSub(dom, ref), ref), RFromNat(100)))

\* line 121: float division raises ZeroDivisionError on a zero divisor
Premium(dom, ref) ==
  IF RIsZero(ref) THEN Raised("ZeroDivisionError")
  ELSE Ok(RMul(RDiv(RSub(dom, ref), ref), RFromNat(100)))

\* lines 120-121
ComputePremium ==
  /\ pc = "premium"
  /\ \E ref \in {ImpliedPrice(intl_usd_oz, usdkrw)} :
       \E k \in {Premium(dom_g, ref)} :
         /\ intl_krw_g' = ref
         /\ IF k.ok
            THEN /\ kimchi' = k.value
                 /\ pc' = "threshold"
                 /\ UNCHANGED <<exit_status, error>>
            ELSE /\ Uncaught(k.error)
                 /\ kimchi' = kimchi
  /\ UNCHANGED <<env, TH, usdkrw, dom_g, intl_usd_oz, pnl, msg, fetched,
                 sends, posts>>

\* lines 124-125
ThresholdGate ==
  /\ pc = "threshold"
  /\ IF UnderThreshold(TEST_MESSAGE, kimchi, TH)
     THEN SystemExit0("exit_threshold")
     ELSE /\ pc' = "calc_pnl"
          /\ UNCHANGED <<exit_status, error>>
  /\ UNCHANGED <<env, TH, usdkrw, dom_g, intl_usd_oz, intl_krw_g, kimchi, pnl,
                 msg, fetched, sends, posts>>

\* lines 128 and 129: the next holding's calc_pnl
CalcPnl ==
  /\ pc = "calc_pnl"
  /\ LET h == Holdings[Len(pnl) + 1]
     IN  \E resp \in Responses(StockPages) :
           \E r \in {calc_pnl(h, resp)} :
               /\ fetched' = Append(fetched, [src |-> h.code, resp |-> resp,
                                         ok |-> r.ok])
               /\ IF r.ok
                  THEN /\ pnl' = Append(pnl, r)
                       /\ pc' = IF Len(pnl) + 1 = Len(Holdings)
                                THEN "compose" ELSE "calc_pnl"
                       /\ UNCHANGED <<exit_status, error>>
                  ELSE /\ Uncaught(r.error)
                       /\ pnl' = pnl
  /\ UNCHANGED <<env, TH, usdkrw, dom_g, intl_usd_oz, intl_krw_g, kimchi, msg,
                 sends, posts>>

\* lines 131-179: the parts of the message that depend on the run, but for the
\* time stamp of line 155
Message ==
  LET kimchi_abs == RAbs(kimchi)
  IN  [badge |-> badge(kimchi_abs, TH),
       level |-> kimchi_level(kimchi_abs, TH),
       sign |-> IF RGe(kimchi, RZero) THEN "up" ELSE "down",
       pct |-> fmt_pct(kimchi),
       intl |-> FmtFixed(intl_usd_oz, 2, TRUE),
       fx |-> FmtFixed(usdkrw, 2, TRUE),
       implied |-> FmtFixed(intl_krw_g, 0, TRUE),
       dom |-> FmtFixed(dom_g, 0, TRUE),
       summary |-> [i \in 1..Len(pnl) |->
                      [icon |-> pnl_icon(pnl[i].pl),
                       pl |-> fmt_won(pnl[i].pl),
                       pl_pct |-> fmt_pct(pnl[i].pl_pct)]],
       lines_hold |-> [i \in 1..Len(pnl) |->
                         pnl_table_line(Holdings[i], pnl[i])],
       th |-> FmtFixed(TH, 2, FALSE),
       force_run |-> FORCE_RUN,
       test_message |-> TEST_MESSAGE]

Compose ==
  /\ pc = "compose"
  /\ msg' = Message
  /\ pc' = "send"
  /\ UNCHANGED <<env, TH, usdkrw, dom_g, intl_usd_oz, intl_krw_g, kimchi, pnl,
                 fetched, sends, posts, exit_status, error>>

\* a failed delivery tried again
AfterSendRetry(outcome) ==
  IF outcome = "ok"
  THEN /\ pc' = "done"
       /\ exit_status' = 0
       /\ error' = ""
  ELSE /\ pc' = "send"
       /\ UNCHANGED <<exit_status, error>>

\* where the run goes after send_telegram returned or raised
AfterSend(outcome) ==
  IF outcome = "ok"
  THEN /\ pc' = "done"
       /\ exit_status' = 0
       /\ error' = ""
  ELSE Uncaught(outcome)

\* line 181 and lines 68-82: the credentials are read first (KeyError when one
\* is not set), then one POST is made
SendTelegram ==
  /\ pc = "send"
  /\ \E outcome \in Deliveries :
       /\ sends' = Append(sends, outcome)
       /\ posts' = IF outcome = "KeyError" THEN posts ELSE posts + 1
       /\ AfterSend(outcome)
  /\ UNCHANGED <<env, TH, usdkrw, dom_g, intl_usd_oz, intl_krw_g, kimchi, pnl,
                 msg, fetched>>

Next ==
  \/ GateCheck
  \/ GetUsdkrw
  \/ GetDomesticGold
  \/ GetInternationalGold
  \/ ComputePremium
  \/ ThresholdGate
  \/ CalcPnl
  \/ Compose
  \/ SendTelegram

Spec ==
  Init /\ [][Next]_vars

(***************************************************************************)
(* is_korean_market_hours applied alone to a clock reading.                *)
(***************************************************************************)
ClockMinutes ==
  {0, 1, 29, 30, 31, 59}

ClockSeconds ==
  {0, 1, 59}

ClockMicroseconds ==
  {0, 1, 999999}

Clocks ==
  {Clock(wd, h, m, sec, us) :
     wd \in 0..6, h \in 0..23, m \in ClockMinutes, sec \in ClockSeconds,
     us \in ClockMicroseconds}

\* the variables a function applied alone leaves alone
Idle ==
  /\ FORCE_RUN = FALSE
  /\ TEST_MESSAGE = FALSE
  /\ KIMCHI_THRESHOLD = <<>>
  /\ now = NoClock
  /\ Fresh("apply")
  /\ ret = <<>>

run ==
  <<FORCE_RUN, TEST_MESSAGE, KIMCHI_THRESHOLD, now, TH, usdkrw, dom_g,
    intl_usd_oz, intl_krw_g, kimchi, pnl, msg, fetched, sends, posts,
    exit_status, error, arg>>

InitClock ==
  /\ Idle
  /\ arg \in Clocks

\* line 111: is_korean_market_hours() with datetime.now(KST) reading arg
ApplyClock ==
  /\ pc = "apply"
  /\ ret' = <<is_korean_market_hours(arg)>>
  /\ pc' = "applied"
  /\ UNCHANGED run

NextClock ==
  ApplyClock

SpecClock ==
  InitClock /\ [][NextClock]_vars

(***************************************************************************)
(* num_from applied alone, with the number patterns of the three premium   *)
(* adapters, to a numeral followed by the unit the pattern asks for.       *)
(***************************************************************************)
MaxDigits ==
  4

NumeralDigits ==
  {"0", "1", "3"}

\* the integer parts written without grouping, of 1 to MaxDigits digits
Ungrouped ==
  {ds \in UNION {[1..n -> NumeralDigits] : n \in 1..MaxDigits} :
     Len(ds) = 1 \/ ds[1] # "0"}

\* without grouping, and with a comma before every three digits
IntegerParts ==
  Ungrouped \cup {Grouped(ds) : ds \in Ungrouped}

FractionParts ==
  {<<>>, <<".", "5">>, <<".", "0", "0">>}

Numerals ==
  {ip \o fp : ip \in IntegerParts, fp \in FractionParts}

\* lines 55, 60 and 65: the pattern and the unit that follows the number
Adapters ==
  {[pattern |-> PAT_USDKRW, unit |-> <<>>],
   [pattern |-> PAT_DOMESTIC, unit |-> <<" ", "WON/G">>],
   [pattern |-> PAT_DOMESTIC, unit |-> <<"WON/G">>],
   [pattern |-> PAT_INTERNATIONAL, unit |-> <<" ", "USD/OZS">>]}

\* a text that is a numeral and its unit, and a text without a number
ExtractorInputs ==
  {[pattern |-> a.pattern, numeral |-> n, text |-> n \o a.unit] :
     a \in Adapters, n \in Numerals}
    \cup {[pattern |-> a.pattern, numeral |-> <<>>, text |-> NoNumberPage \o a.unit] :
            a \in Adapters}

InitNumFrom ==
  /\ Idle
  /\ arg \in ExtractorInputs

\* lines 55, 60 and 65: num_from(text, pattern)
ApplyNumFrom ==
  /\ pc = "apply"
  /\ ret' = <<num_from(arg.text, arg.pattern)>>
  /\ pc' = "applied"
  /\ UNCHANGED run

NextNumFrom ==
  ApplyNumFrom

SpecNumFrom ==
  InitNumFrom /\ [][NextNumFrom]_vars

(***************************************************************************)
(* Properties.                                                             *)
(***************************************************************************)
Terminated ==
  exit_status # -1

PassedGate ==
  pc # "gate" /\ pc # "exit_gate"

EveryFetchOk ==
  \A i \in 1..Len(fetched) : fetched[i].ok

\* |kimchi| >= TH or TEST_MESSAGE is set
Alerting ==
  TEST_MESSAGE \/ RGe(RAbs(kimchi), TH)

\* C1, as amended: in a run that passes the market-hours gate, in which every
\* fetch succeeds and the premium is computed (the implied price is not zero),
\* send_telegram is called, once, if and only if |premium| >= threshold
\* (equality included) or TEST_MESSAGE is set; it is never called otherwise.
AlertSentIffPremiumOverThreshold ==
  /\ sends # <<>> =>
       PassedGate /\ EveryFetchOk /\ IsSet(kimchi) /\ Alerting
  /\ (Terminated /\ PassedGate /\ EveryFetchOk /\ IsSet(kimchi)) =>
       (Len(sends) = 1 <=> Alerting)

\* a run without TEST_MESSAGE whose premium equals the threshold has sent
SentAtExactThreshold ==
  /\ pc = "done"
  /\ ~TEST_MESSAGE
  /\ RGe(RAbs(kimchi), TH)
  /\ RGe(TH, RAbs(kimchi))
  /\ sends = <<"ok">>

\* C1 as stated: in a run that passes the market-hours gate and in which every
\* fetch succeeds, send_telegram is called if and only if |premium| >= threshold
\* or TEST_MESSAGE is set: with TEST_MESSAGE set it is called whatever the
\* premium is.
AlertSentIffOverThresholdOrOverride ==
  (Terminated /\ PassedGate /\ EveryFetchOk) =>
    (Len(sends) = 1 <=> (TEST_MESSAGE \/ (IsSet(kimchi) /\ RGe(RAbs(kimchi), TH))))

NoDigit(text) ==
  \A i \in 1..Len(text) : ~IsDigit(text[i])

\* the exception a fetch of the response resp must end in, "" when none must
FetchError(resp) ==
  IF resp.kind # "ok" THEN resp.kind
  ELSE IF NoDigit(resp.text) THEN "ValueError"
  ELSE ""

\* C3: when a fetch fails (no response, a non-2xx status, or no number in the
\* page) for any of the five sources, the run ends there with that error and
\* a non-zero exit status, nothing more is fetched, no message is composed
\* and send_telegram is not called.
FetchFailureFailsRun ==
  \A i \in 1..Len(fetched) :
    FetchError(fetched[i].resp) # "" =>
      /\ i = Len(fetched)
      /\ pc = "raised"
      /\ exit_status = 1
      /\ error = FetchError(fetched[i].resp)
      /\ msg = NoMsg
      /\ sends = <<>>
      /\ posts = 0

\* the second holding's page has no price, after the threshold gate was passed
HoldingFetchFailsAfterDecision ==
  /\ Len(fetched) = 5
  /\ fetched[5].resp.kind = "ok"
  /\ NoDigit(fetched[5].resp.text)
  /\ pc = "raised"
  /\ ~TEST_MESSAGE

\* C4: send_telegram is called at most once in a run, and exactly once in a
\* run that composed its message; a failed delivery is not tried again and
\* ends the run with the error and exit status 1, never as delivered or
\* suppressed.
DeliveredAtMostOnce ==
  /\ Len(sends) <= 1
  /\ posts <= 1
  /\ pc = "send" => sends = <<>> /\ msg # NoMsg
  /\ msg # NoMsg => sends # <<>> \/ pc = "send"
  /\ (sends # <<>> /\ sends[1] # "ok") =>
       /\ pc = "raised"
       /\ exit_status = 1
       /\ error = sends[1]
  /\ (sends # <<>> /\ sends[1] = "ok") =>
       /\ pc = "done"
       /\ exit_status = 0
  /\ pc \in {"exit_gate", "exit_threshold"} => sends = <<>>

\* the POST got a non-2xx response: the run has failed after one call
DeliveryFailureSurfaced ==
  /\ sends = <<"HTTPError">>
  /\ posts = 1
  /\ pc = "raised"
  /\ error = "HTTPError"

\* seconds since midnight
SecondOfDay(t) ==
  t.hour * 3600 + t.minute * 60 + t.second

\* C5, as amended: the gate is open if and only if the day is Monday-Friday and
\* the time of day, to the microsecond, is from 09:00:00 to 15:30:00 with both
\* instants included; after 15:30:00.000000 it is closed, the rest of the
\* minute 15:30 included.
GateOpenFromNineToHalfPastThree ==
  pc = "applied" =>
    (ret[1] <=> /\ arg.weekday <= 4
                /\ SecondOfDay(arg) >= 32400
                /\ \/ SecondOfDay(arg) < 55800
                   \/ SecondOfDay(arg) = 55800 /\ arg.microsecond = 0)

\* open at Friday 15:30:00 exactly
OpenAtClosingInstant ==
  /\ pc = "applied"
  /\ arg = Clock(4, 15, 30, 0, 0)
  /\ ret = <<TRUE>>

\* C5 as stated: the gate is open if and only if the day is Monday-Friday and
\* the clock time hh:mm is from 09:00 to 15:30, both boundary minutes included.
GateOpenByTheMinute ==
  pc = "applied" =>
    (ret[1] <=> /\ arg.weekday <= 4
                /\ arg.hour * 60 + arg.minute >= 540
                /\ arg.hour * 60 + arg.minute <= 930)

\* the extracted exchange rate or the extracted international price is zero
ZeroFactor ==
  /\ IsSet(usdkrw)
  /\ IsSet(intl_usd_oz)
  /\ RIsZero(usdkrw) \/ RIsZero(intl_usd_oz)

\* the run failed on the division of line 121, before any premium was made
FailedOnZeroReference ==
  /\ pc = "raised"
  /\ error = "ZeroDivisionError"
  /\ exit_status = 1
  /\ IsSet(intl_krw_g)
  /\ RIsZero(intl_krw_g)
  /\ ~IsSet(kimchi)
  /\ msg = NoMsg
  /\ sends = <<>>
  /\ posts = 0

\* C6, as amended: when the implied reference price is zero (the extracted
\* exchange rate is 0 or the extracted international price is 0; a zero rate
\* is not rejected by get_usdkrw, and the other two prices are still
\* fetched), the division raises ZeroDivisionError, no premium is produced,
\* and the run ends with that error, exit status 1 and no delivery.
ZeroReferenceFailsRun ==
  /\ (ZeroFactor /\ pc # "premium") => FailedOnZeroReference
  /\ (IsSet(intl_krw_g) /\ RIsZero(intl_krw_g)) => ZeroFactor
  /\ error = "ZeroDivisionError" => ZeroFactor /\ Len(fetched) = 3

\* an exchange rate of 0 was extracted, both gold prices were fetched after
\* it, and the run failed on the division with TEST_MESSAGE set
ZeroRateReachesDivision ==
  /\ IsSet(usdkrw)
  /\ RIsZero(usdkrw)
  /\ Len(fetched) = 3
  /\ TEST_MESSAGE
  /\ FailedOnZeroReference

\* C6 as stated: a zero implied reference price ends the run as failed,
\* without a premium and without delivery, and an exchange rate that is not
\* > 0 is rejected upstream, by the exchange-rate adapter.
ZeroRateRejectedUpstream ==
  /\ (ZeroFactor /\ pc # "premium") => FailedOnZeroReference
  /\ IsSet(usdkrw) => RGt(usdkrw, RZero)

\* C7: for a numeral, grouped by commas or not, followed by the unit of the
\* pattern, num_from returns the number the whole numeral denotes, the commas
\* stripped; for a text without a number it raises "number not found".
ExtractorIsExact ==
  pc = "applied" =>
    ret[1] = IF arg.numeral = <<>> THEN Raised("ValueError")
             ELSE Ok(Float(RemoveCommas(arg.numeral)))

\* gate open, no flags, threshold 1.5, and the pages read 1,350.00,
\* 140,000 and 2,600.00
Scenario ==
  /\ ~FORCE_RUN
  /\ ~TEST_MESSAGE
  /\ is_korean_market_hours(now)
  /\ KIMCHI_THRESHOLD = <<>>
  /\ Len(fetched) >= 3
  /\ fetched[1].resp = [kind |-> "ok", text |-> <<"1", ",", "3", "5", "0", ".", "0", "0">>]
  /\ fetched[2].resp = [kind |-> "ok", text |-> <<"1", "4", "0", ",", "0", "0", "0", " ", "WON/G">>]
  /\ fetched[3].resp = [kind |-> "ok", text |-> <<"2", ",", "6", "0", "0", ".", "0", "0", " ", "USD/OZS">>]

\* C8, as amended: in the scenario the implied price 2600*1350/31.1034768 is
\* written 112,849, the premium is written +24.06% (sign shown, two
\* decimals), the run is not suppressed, and send_telegram is called when the
\* holdings' prices are fetched.
ScenarioRendering ==
  Scenario =>
    /\ pc # "exit_threshold"
    /\ pc # "raised" => EveryFetchOk
    /\ msg # NoMsg =>
         /\ msg.implied = <<"1", "1", "2", ",", "8", "4", "9">>
         /\ msg.pct = <<"+", "2", "4", ".", "0", "6", "%">>
         /\ msg.sign = "up"
    /\ (Terminated /\ EveryFetchOk) => Len(sends) = 1

\* the scenario's message delivered
ScenarioDelivered ==
  /\ Scenario
  /\ pc = "done"
  /\ sends = <<"ok">>
  /\ msg.pct = <<"+", "2", "4", ".", "0", "6", "%">>

\* C8 as stated: in the scenario the implied price is written 112,855, the
\* premium +24.05%, and the alert is sent.
ScenarioAsSpecified ==
  Scenario =>
    /\ pc # "exit_threshold"
    /\ msg # NoMsg =>
         /\ msg.implied = <<"1", "1", "2", ",", "8", "5", "5">>
         /\ msg.pct = <<"+", "2", "4", ".", "0", "5", "%">>
    /\ (Terminated /\ EveryFetchOk) => Len(sends) = 1

\* the sources in the order the script fetches them
SourceOrder ==
  <<"FX_USDKRW", "M04020000", "GCcv1", "411060", "091160">>

\* C9, as amended: the run goes gate, fetching of the three premium sources,
\* decision, then either suppressed or fetching of the two holdings' prices,
\* composing and delivery.  The exchange rate and the two gold prices are
\* fetched before the threshold decision; the holdings' prices are fetched
\* only after the decision let the run pass, and before composing; nothing is
\* fetched after composing.  A delivered run has fetched all five sources, a
\* suppressed one the three premium sources only.
HoldingsFetchedAfterDecision ==
  /\ Len(fetched) <= 5
  /\ \A i \in 1..Len(fetched) : fetched[i].src = SourceOrder[i]
  /\ pc \in {"premium", "threshold", "exit_threshold"} => Len(fetched) = 3
  /\ pc = "calc_pnl" => Len(fetched) \in {3, 4}
  /\ (pc \in {"compose", "send", "done"} \/ sends # <<>>) => Len(fetched) = 5
  /\ Len(fetched) > 3 => IsSet(kimchi) /\ Alerting
  /\ pc = "gate" \/ pc = "exit_gate" => fetched = <<>>

\* a suppressed run: three fetches, no holding's price among them
SuppressedWithThreeSources ==
  /\ pc = "exit_threshold"
  /\ exit_status = 0
  /\ Len(fetched) = 3
  /\ fetched[3].src = "GCcv1"

\* C9 as stated: every fetch, the holdings' prices included, is complete
\* before the threshold decision is taken: none is issued after it, and a
\* suppressed or delivered run has fetched all five sources.
AllSourcesFetchedBeforeDecision ==
  /\ pc \in {"threshold", "exit_threshold", "calc_pnl", "compose", "send", "done"}
       => Len(fetched) = 5
  /\ \A i \in 1..Len(fetched) : fetched[i].src = SourceOrder[i]

\* C10: in a composed message the badge is the warning badge iff
\* |premium| >= threshold; the level is fire iff |premium| >= 2*threshold,
\* siren iff threshold <= |premium| < 2*threshold, ok iff |premium| <
\* threshold; the info badge or the ok level occur only with TEST_MESSAGE
\* set; the badge is the warning badge exactly when the level is not ok.
MarkersAgreeWithDecision ==
  msg # NoMsg =>
    /\ msg.badge \in {"warning", "info"}
    /\ msg.level \in {"fire", "siren", "ok"}
    /\ msg.badge = "warning" <=> RGe(RAbs(kimchi), TH)
    /\ msg.level = "fire" <=> RGe(RAbs(kimchi), RAdd(TH, TH))
    /\ msg.level = "siren" <=>
         RGe(RAbs(kimchi), TH) /\ RLt(RAbs(kimchi), RAdd(TH, TH))
    /\ msg.level = "ok" <=> RLt(RAbs(kimchi), TH)
    /\ (msg.badge = "info" \/ msg.level = "ok") => TEST_MESSAGE
    /\ msg.badge = "warning" <=> msg.level # "ok"

\* delivered with the premium equal to the threshold: warning badge, siren
WarningAndSirenAtThreshold ==
  /\ pc = "done"
  /\ RGe(RAbs(kimchi), TH)
  /\ RGe(TH, RAbs(kimchi))
  /\ msg.badge = "warning"
  /\ msg.level = "siren"
  /\ KIMCHI_THRESHOLD = <<>>

====
